---- MODULE Spec2Model ----
(***************************************************************************)
(* Service worker src/Sw.js: versioned cache generations, the install and  *)
(* activate handlers, the three fetch strategies and the message handler.  *)
(* One worker script (CACHE_VERSION) is modelled together with the cache   *)
(* store it shares with the generations left behind by earlier versions.   *)
(***************************************************************************)
EXTENDS Integers, Sequences, FiniteSets, Bags, TLC

\* ------------------------------------------------------------------ bounds

\* Number of fetch events dispatched to the active worker in one behaviour
\* of SpecServe.
MaxRequests == 2
\* Number of fetch events dispatched in one behaviour of Spec, which also
\* runs the install and activate handlers.
MaxLifecycleRequests == 1
\* Number of distinct bodies the network can answer a request with.
MaxBody == 2

\* ------------------------------------------------------- names and paths

CACHE_VERSION == "v1.0.0"
STATIC_CACHE == <<"static", CACHE_VERSION>>
RUNTIME_CACHE == <<"runtime", CACHE_VERSION>>

\* A URL path is the sequence of its segments: "/" is <<>>.
RootPath == <<>>
OfflinePath == <<"offline.html">>
PlaceholderPath == <<"icons", "icon-192x192.png">>
ApiUsersPath == <<"api", "users">>
PhotoPath == <<"photo.png">>

STATIC_ASSETS ==
    << RootPath,
       <<"index.html">>,
       OfflinePath,
       <<"styles", "main.css">>,
       <<"scripts", "main.js">>,
       <<"manifest.json">>,
       PlaceholderPath,
       <<"icons", "icon-512x512.png">> >>

\* Generations a previous deployment may have left in the store, in the
\* order that deployment created them.
PREVIOUS_VERSION == "v0.9.0"
PriorGenerations == << <<"static", PREVIOUS_VERSION>>, <<"runtime", PREVIOUS_VERSION>> >>

\* ------------------------------------------------------------- responses

NoResp == [status |-> 0, type |-> "none", body |-> 0]
PreloadResp == [status |-> 200, type |-> "basic", body |-> 1]
StaleResp == [status |-> 200, type |-> "basic", body |-> 0]
GatewayTimeout == [status |-> 504, type |-> "default", body |-> 0]

\* What fetch(request) can resolve with; an opaque response is the answer
\* to a no-cors request alone.
NetResponses ==
    {[status |-> 200, type |-> "basic", body |-> b] : b \in 1..MaxBody}
        \cup {[status |-> 404, type |-> "basic", body |-> 1],
              [status |-> 0, type |-> "opaque", body |-> 1]}

\* ----------------------------------------------------------- cache store
\* The store is the sequence of its generations in creation order
\* (the order of caches.keys()); a generation is a name and its entries,
\* a function from the stored paths to the stored responses.

EmptyEntries == [p \in {} |-> NoResp]

RECURSIVE SeqToSet(_)
SeqToSet(s) == IF s = <<>> THEN {} ELSE {Head(s)} \cup SeqToSet(Tail(s))

Keys(store) == {store[i].name : i \in 1..Len(store)}

Has(store, name) == name \in Keys(store)

IndexOf(store, name) == CHOOSE i \in 1..Len(store) : store[i].name = name

EntriesOf(store, name) ==
    IF Has(store, name) THEN store[IndexOf(store, name)].entries ELSE EmptyEntries

\* caches.open(name): the generation is created, last in order, when absent.
Open(store, name) ==
    IF Has(store, name) THEN store
    ELSE Append(store, [name |-> name, entries |-> EmptyEntries])

PutEntry(entries, path, resp) ==
    [p \in DOMAIN entries \cup {path} |-> IF p = path THEN resp ELSE entries[p]]

\* Put keeping the entry a path already has.
PutIfAbsent(store, name, path, resp) ==
    [i \in 1..Len(store) |->
        IF store[i].name = name /\ path \notin DOMAIN store[i].entries
        THEN [store[i] EXCEPT !.entries = PutEntry(@, path, resp)]
        ELSE store[i]]

\* cache.put(request, copy) on an open generation: last write wins.
Put(store, name, path, resp) ==
    [i \in 1..Len(store) |->
        IF store[i].name = name
        THEN [store[i] EXCEPT !.entries = PutEntry(@, path, resp)]
        ELSE store[i]]

RECURSIVE PutAll(_, _, _, _)
PutAll(store, name, paths, resp) ==
    IF paths = <<>> THEN store
    ELSE PutAll(Put(store, name, Head(paths), resp), name, Tail(paths), resp)

\* caches.delete(name)
Delete(store, name) == SelectSeq(store, LAMBDA g : g.name # name)

\* caches.match(path): the entry of the first generation, in creation
\* order, that holds one; NoResp stands for undefined.
RECURSIVE Match(_, _)
Match(store, path) ==
    IF store = <<>> THEN NoResp
    ELSE IF path \in DOMAIN Head(store).entries THEN Head(store).entries[path]
    ELSE Match(Tail(store), path)

\* -------------------------------------------------------------- requests

\* IsSkipWaiting without the test of the type.
IsSkipWaitingAnyType(data) == data.has

IsSkipWaiting(data) == data.has /\ data.type = "SKIP_WAITING"

\* event.data of a message event: null, an object without a type, and
\* objects with a type.
MessageData ==
    {[has |-> FALSE, type |-> "undefined"],
     [has |-> TRUE, type |-> "undefined"],
     [has |-> TRUE, type |-> "PING"],
     [has |-> TRUE, type |-> "SKIP_WAITING"]}

Req(method, mode, path, destination, accept) ==
    [method |-> method, mode |-> mode, path |-> path,
     destination |-> destination, accept |-> accept]

\* The requests a page sends; accept is the set of media ranges of the
\* Accept header, {} when the header is absent. The image request names
\* text/html among them, so that both tests of the static catch apply to it.
Requests ==
    {Req("POST", "cors", ApiUsersPath, "", {"application/json"}),
     Req("POST", "navigate", RootPath, "document", {"text/html"}),
     Req("GET", "navigate", RootPath, "document", {"text/html"}),
     Req("GET", "navigate", ApiUsersPath, "document", {"text/html"}),
     Req("GET", "navigate", PhotoPath, "document", {"text/html"}),
     Req("GET", "cors", ApiUsersPath, "", {"application/json"}),
     Req("GET", "cors", RootPath, "", {"text/html"}),
     Req("GET", "no-cors", PhotoPath, "image", {"image/*", "text/html"}),
     Req("GET", "cors", PhotoPath, "", {"text/html"}),
     Req("GET", "cors", PhotoPath, "", {})}

IsGet(request) == request.method = "GET"

IsNavigate(request) == request.mode = "navigate"

\* url.pathname.startsWith('/api/')
IsApi(request) == Len(request.path) >= 2 /\ request.path[1] = "api"

IsImage(request) == request.destination = "image"

AcceptsHtml(request) == request.accept # {} /\ "text/html" \in request.accept

Cacheable(res) == res # NoResp /\ res.status = 200 /\ res.type # "opaque"

Classify(request) ==
    IF IsNavigate(request) THEN "navigation"
    ELSE IF IsApi(request) THEN "api"
    ELSE "static"

\* The result a fetch event ends with: src tells where resp comes from.
Result(src, resp) == [src |-> src, resp |-> resp]

NoResult == Result("none", NoResp)

\* A task: one fetch event, from its dispatch to the end of the cache
\* write it may have scheduled. lookups and netCalls count its calls of
\* caches.match and fetch, responded tells that respondWith was called.
\* prior is history: the cacheable responses fetch had already returned to
\* static requests for the same path when the event was dispatched.
NewTask(request) ==
    [req |-> request, pc |-> "start", responded |-> FALSE,
     net |-> NoResp, result |-> NoResult, lookups |-> 0, netCalls |-> 0,
     write |-> "none", copy |-> NoResp, prior |-> {}]

Finish(t, src, resp) == [t EXCEPT !.pc = "done", !.result = Result(src, resp)]

CallFetch(t, pc) == [t EXCEPT !.pc = pc, !.netCalls = @ + 1]

CallMatch(t, pc) == [t EXCEPT !.pc = pc, !.lookups = @ + 1]

ScheduleWrite(t, res) == [t EXCEPT !.write = "scheduled", !.copy = res]

FromCache(t, m) ==
    IF m # NoResp THEN Finish(t, "cache", m) ELSE Finish(t, "undefined", NoResp)

\* OnFetch without the method test of its first line.
OnFetchAnyMethod(request) ==
    LET t == [NewTask(request) EXCEPT !.responded = TRUE] IN
    IF IsNavigate(request) THEN CallFetch(t, "nav_fetch")
    ELSE IF IsApi(request) THEN CallFetch(t, "api_fetch")
    ELSE CallMatch(t, "st_match")

\* OnFetch testing the path before the mode.
OnFetchApiFirst(request) ==
    LET t == NewTask(request) IN
    IF ~IsGet(request) THEN Finish(t, "passthrough", NoResp)
    ELSE IF IsApi(request)
         THEN CallFetch([t EXCEPT !.responded = TRUE], "api_fetch")
    ELSE IF IsNavigate(request)
         THEN CallFetch([t EXCEPT !.responded = TRUE], "nav_fetch")
    ELSE CallMatch([t EXCEPT !.responded = TRUE], "st_match")

\* The fetch listener up to its return.
OnFetch(request) ==
    LET t == NewTask(request) IN
    IF ~IsGet(request) THEN Finish(t, "passthrough", NoResp)
    ELSE IF IsNavigate(request)
         THEN CallFetch([t EXCEPT !.responded = TRUE], "nav_fetch")
    ELSE IF IsApi(request)
         THEN CallFetch([t EXCEPT !.responded = TRUE], "api_fetch")
    ELSE CallMatch([t EXCEPT !.responded = TRUE], "st_match")

\* NavThen preferring a cached copy to the response just fetched.
NavThenCachePreferred(t, res) ==
    CallMatch(ScheduleWrite([t EXCEPT !.net = res], res), "nav_match")

\* Navigation: fetch(request).then(...)
NavThen(t, res) ==
    Finish(ScheduleWrite([t EXCEPT !.net = res], res), "network", res)

\* Navigation: .catch(() => caches.match(request)...)
NavCatch(t) == CallMatch(t, "nav_match")

\* NavMatched without the offline page as a second lookup.
NavMatchedNoFallback(t, cached) == FromCache(t, cached)

\* NavMatched answering with the offline page whatever the cache holds.
NavMatchedOfflineOnly(t, cached) == CallMatch(t, "nav_offline")

\* Navigation: cached || caches.match('/offline.html')
NavMatched(t, cached) ==
    IF cached # NoResp THEN Finish(t, "cache", cached)
    ELSE CallMatch(t, "nav_offline")

NavOffline(t, m) == FromCache(t, m)

\* ApiThen storing the response only when the static strategy would.
ApiThenOkOnly(t, res) ==
    LET u == [t EXCEPT !.net = res] IN
    IF Cacheable(res) THEN Finish(ScheduleWrite(u, res), "network", res)
    ELSE Finish(u, "network", res)

\* API: fetch(request).then(...)
ApiThen(t, res) ==
    Finish(ScheduleWrite([t EXCEPT !.net = res], res), "network", res)

\* API: .catch(() => caches.match(request))
ApiCatch(t) == CallMatch(t, "api_match")

\* ApiMatched synthesizing a 504 when the cache holds nothing.
ApiMatchedSynthesized(t, m) ==
    IF m # NoResp THEN Finish(t, "cache", m)
    ELSE Finish(t, "synthesized", GatewayTimeout)

ApiMatched(t, m) == FromCache(t, m)

\* StaticMatched fetching again although the cache answered.
StaticMatchedRevalidate(t, cached) == CallFetch(t, "st_fetch")

\* Static: caches.match(request).then((cached) => ...)
StaticMatched(t, cached) ==
    IF cached # NoResp THEN Finish(t, "cache", cached)
    ELSE CallFetch(t, "st_fetch")

\* StaticThen returning the response only once the write has completed.
StaticThenAwaitWrite(t, res) ==
    LET u == [t EXCEPT !.net = res] IN
    IF Cacheable(res) THEN [ScheduleWrite(u, res) EXCEPT !.pc = "st_write"]
    ELSE Finish(u, "network", res)

\* Static: fetch(request).then(...)
StaticThen(t, res) ==
    LET u == [t EXCEPT !.net = res] IN
    IF Cacheable(res) THEN Finish(ScheduleWrite(u, res), "network", res)
    ELSE Finish(u, "network", res)

\* StaticCatch testing the Accept header before the destination.
StaticCatchHtmlFirst(t) ==
    IF AcceptsHtml(t.req) THEN CallMatch(t, "st_offline")
    ELSE IF IsImage(t.req) THEN CallMatch(t, "st_image")
    ELSE Finish(t, "synthesized", GatewayTimeout)

\* Static: .catch(() => ...)
StaticCatch(t) ==
    IF IsImage(t.req) THEN CallMatch(t, "st_image")
    ELSE IF AcceptsHtml(t.req) THEN CallMatch(t, "st_offline")
    ELSE Finish(t, "synthesized", GatewayTimeout)

StaticFallback(t, m) == FromCache(t, m)

\* The path a pending caches.match looks up.
MatchKey(t) ==
    IF t.pc \in {"nav_offline", "st_offline"} THEN OfflinePath
    ELSE IF t.pc = "st_image" THEN PlaceholderPath
    ELSE t.req.path

FetchPcs == {"nav_fetch", "api_fetch", "st_fetch"}
MatchPcs == {"nav_match", "nav_offline", "api_match", "st_match", "st_image", "st_offline"}

\* ----------------------------------------------------------------- state

VARIABLES
    caches,          \* the cache store
    swState,         \* lifecycle state of this worker
    installPc,       \* position in the install handler's promise chain
    skipWaitingFlag, \* the worker's skip-waiting flag
    installSkipped,  \* the install handler has called self.skipWaiting()
    clientsOpen,     \* sessions controlled by the previous version are open
    activatePc,      \* position in the activate handler's promise chain
    deletes,         \* outcome of each caches.delete(key) of the handler
    claimed,         \* self.clients.claim() has been called
    tasks            \* the bag of fetch events dispatched to this worker

vars == <<caches, swState, installPc, skipWaitingFlag, installSkipped,
          clientsOpen, activatePc, deletes, claimed, tasks>>

lifecycleVars == <<swState, installPc, skipWaitingFlag, installSkipped,
                   clientsOpen, activatePc, deletes, claimed>>

NoDeletes == [k \in {} |-> "pending"]

\* What the previous deployment left in a generation.
PriorEntries(name) ==
    IF name[1] = "static"
    THEN [p \in SeqToSet(STATIC_ASSETS) |-> StaleResp]
    ELSE [p \in {ApiUsersPath, PhotoPath} |-> StaleResp]

PriorStore(present) ==
    LET kept == SelectSeq(PriorGenerations, LAMBDA n : n \in present) IN
    [i \in 1..Len(kept) |-> [name |-> kept[i], entries |-> PriorEntries(kept[i])]]

\* The worker script has been parsed; the previous version controls the
\* open sessions; the store holds what earlier deployments left.
Init ==
    /\ \E present \in SUBSET SeqToSet(PriorGenerations) : caches = PriorStore(present)
    /\ swState = "parsed"
    /\ installPc = "idle"
    /\ skipWaitingFlag = FALSE
    /\ installSkipped = FALSE
    /\ clientsOpen = TRUE
    /\ activatePc = "idle"
    /\ deletes = NoDeletes
    /\ claimed = FALSE
    /\ tasks = EmptyBag

\* ------------------------------------------------------------- lifecycle

\* install listener: event.waitUntil(caches.open(STATIC_CACHE)...)
InstallEvent ==
    /\ swState = "parsed"
    /\ swState' = "installing"
    /\ installPc' = "open"
    /\ UNCHANGED <<caches, skipWaitingFlag, installSkipped, clientsOpen,
                   activatePc, deletes, claimed, tasks>>

\* caches.open(STATIC_CACHE) resolves
InstallOpen ==
    /\ installPc = "open"
    /\ caches' = Open(caches, STATIC_CACHE)
    /\ installPc' = "addAll"
    /\ UNCHANGED <<swState, skipWaitingFlag, installSkipped, clientsOpen,
                   activatePc, deletes, claimed, tasks>>

\* AddAllResolve with the promise of cache.addAll not returned to the
\* chain: the chain goes on before anything is stored.
AddAllResolveUnawaited ==
    /\ installPc = "addAll"
    /\ installPc' = "skipWaiting"
    /\ UNCHANGED <<caches, swState, skipWaitingFlag, installSkipped, clientsOpen,
                   activatePc, deletes, claimed, tasks>>

\* cache.addAll(STATIC_ASSETS) resolves: every asset was fetched and stored
AddAllResolve ==
    /\ installPc = "addAll"
    /\ caches' = PutAll(caches, STATIC_CACHE, STATIC_ASSETS, PreloadResp)
    /\ installPc' = "skipWaiting"
    /\ UNCHANGED <<swState, skipWaitingFlag, installSkipped, clientsOpen,
                   activatePc, deletes, claimed, tasks>>

\* AddAllReject with the assets stored one by one: those before asset k
\* stay in the generation.
AddAllRejectPartial(k) ==
    /\ installPc = "addAll"
    /\ k \in 1..Len(STATIC_ASSETS)
    /\ caches' = PutAll(caches, STATIC_CACHE, SubSeq(STATIC_ASSETS, 1, k - 1), PreloadResp)
    /\ installPc' = "rejected"
    /\ swState' = "redundant"
    /\ UNCHANGED <<skipWaitingFlag, installSkipped, clientsOpen,
                   activatePc, deletes, claimed, tasks>>

\* cache.addAll rejects: the fetch of asset k failed, nothing is stored;
\* the waitUntil promise rejects and the worker is discarded
AddAllReject(k) ==
    /\ installPc = "addAll"
    /\ k \in 1..Len(STATIC_ASSETS)
    /\ installPc' = "rejected"
    /\ swState' = "redundant"
    /\ UNCHANGED <<caches, skipWaitingFlag, installSkipped, clientsOpen,
                   activatePc, deletes, claimed, tasks>>

\* .then(() => self.skipWaiting())
InstallSkipWaiting ==
    /\ installPc = "skipWaiting"
    /\ skipWaitingFlag' = TRUE
    /\ installSkipped' = TRUE
    /\ installPc' = "fulfilled"
    /\ UNCHANGED <<caches, swState, clientsOpen, activatePc, deletes, claimed, tasks>>

\* the waitUntil promise of the install event is fulfilled
InstallDone ==
    /\ swState = "installing"
    /\ installPc = "fulfilled"
    /\ swState' = "installed"
    /\ UNCHANGED <<caches, installPc, skipWaitingFlag, installSkipped, clientsOpen,
                   activatePc, deletes, claimed, tasks>>

\* the sessions the previous version controls are closed
SessionsClose ==
    /\ clientsOpen
    /\ swState \in {"parsed", "installing", "installed"}
    /\ clientsOpen' = FALSE
    /\ UNCHANGED <<caches, swState, installPc, skipWaitingFlag, installSkipped,
                   activatePc, deletes, claimed, tasks>>

\* message listener
MessageEvent(data) ==
    /\ swState # "parsed"
    /\ skipWaitingFlag' = IF IsSkipWaiting(data) THEN TRUE ELSE skipWaitingFlag
    /\ UNCHANGED <<caches, swState, installPc, installSkipped, clientsOpen,
                   activatePc, deletes, claimed, tasks>>

\* A waiting worker is activated once its skip-waiting flag is set or no
\* session of the previous version is open: the activate listener runs
\* and calls caches.keys().
ActivateEvent ==
    /\ swState = "installed"
    /\ skipWaitingFlag \/ ~clientsOpen
    /\ swState' = "activating"
    /\ activatePc' = "keys"
    /\ UNCHANGED <<caches, installPc, skipWaitingFlag, installSkipped, clientsOpen,
                   deletes, claimed, tasks>>

\* Obsolete with the two tests of the filter joined by || in place of &&.
ObsoleteEither(keys) == {key \in keys : key # STATIC_CACHE \/ key # RUNTIME_CACHE}

\* The generations the activate listener deletes.
Obsolete(keys) == {key \in keys : key # STATIC_CACHE /\ key # RUNTIME_CACHE}

\* caches.keys() resolves: caches.delete(key) is called for each obsolete key
KeysResolve ==
    /\ activatePc = "keys"
    /\ deletes' = [key \in Obsolete(Keys(caches)) |-> "pending"]
    /\ activatePc' = "all"
    /\ UNCHANGED <<caches, swState, installPc, skipWaitingFlag, installSkipped,
                   clientsOpen, claimed, tasks>>

\* caches.delete(key) resolves
DeleteResolve(key) ==
    /\ key \in DOMAIN deletes
    /\ deletes[key] = "pending"
    /\ caches' = Delete(caches, key)
    /\ deletes' = [deletes EXCEPT ![key] = "done"]
    /\ UNCHANGED <<swState, installPc, skipWaitingFlag, installSkipped, clientsOpen,
                   activatePc, claimed, tasks>>

\* caches.delete(key) rejects
DeleteReject(key) ==
    /\ key \in DOMAIN deletes
    /\ deletes[key] = "pending"
    /\ deletes' = [deletes EXCEPT ![key] = "failed"]
    /\ UNCHANGED <<caches, swState, installPc, skipWaitingFlag, installSkipped,
                   clientsOpen, activatePc, claimed, tasks>>

\* Promise.all is fulfilled: .then(() => self.clients.claim())
ClientsClaim ==
    /\ activatePc = "all"
    /\ \A key \in DOMAIN deletes : deletes[key] = "done"
    /\ claimed' = TRUE
    /\ activatePc' = "fulfilled"
    /\ UNCHANGED <<caches, swState, installPc, skipWaitingFlag, installSkipped,
                   clientsOpen, deletes, tasks>>

\* Promise.all rejects with the first rejected delete: the .then is skipped
AllReject ==
    /\ activatePc = "all"
    /\ \E key \in DOMAIN deletes : deletes[key] = "failed"
    /\ activatePc' = "rejected"
    /\ UNCHANGED <<caches, swState, installPc, skipWaitingFlag, installSkipped,
                   clientsOpen, deletes, claimed, tasks>>

\* the waitUntil promise of the activate event settles: the worker is active
ActivateDone ==
    /\ swState = "activating"
    /\ activatePc \in {"fulfilled", "rejected"}
    /\ swState' = "activated"
    /\ UNCHANGED <<caches, installPc, skipWaitingFlag, installSkipped, clientsOpen,
                   activatePc, deletes, claimed, tasks>>

\* ----------------------------------------------------------- fetch events

\* The bag of tasks with one copy of t replaced by u.
Replace(t, u) == (tasks (-) SetToBag({t})) (+) SetToBag({u})

\* The cacheable responses already served from the network to static
\* requests for path.
ServedFor(path) ==
    {t.net : t \in {x \in BagToSet(tasks) :
                        /\ x.pc = "done" /\ x.req.path = path
                        /\ Classify(x.req) = "static"
                        /\ x.result.src = "network" /\ Cacheable(x.net)}}

\* fetch listener: a request of a page reaches the active worker
FetchEvent(request, limit) ==
    /\ swState = "activated"
    /\ BagCardinality(tasks) < limit
    /\ tasks' = tasks (+) SetToBag({[OnFetch(request) EXCEPT
                    !.prior = IF IsGet(request) /\ Classify(request) = "static"
                              THEN ServedFor(request.path) ELSE {}]})
    /\ UNCHANGED <<caches, lifecycleVars>>

\* fetch(request) resolves with res
NetworkResolve(t, res) ==
    /\ t.pc \in FetchPcs
    /\ res.type = "opaque" => t.req.mode = "no-cors"
    /\ tasks' = Replace(t, IF t.pc = "nav_fetch" THEN NavThen(t, res)
                           ELSE IF t.pc = "api_fetch" THEN ApiThen(t, res)
                           ELSE StaticThen(t, res))
    /\ UNCHANGED <<caches, lifecycleVars>>

\* fetch(request) rejects
NetworkReject(t) ==
    /\ t.pc \in FetchPcs
    /\ tasks' = Replace(t, IF t.pc = "nav_fetch" THEN NavCatch(t)
                           ELSE IF t.pc = "api_fetch" THEN ApiCatch(t)
                           ELSE StaticCatch(t))
    /\ UNCHANGED <<caches, lifecycleVars>>

\* caches.match(...) resolves
MatchResolve(t) ==
    /\ t.pc \in MatchPcs
    /\ LET m == Match(caches, MatchKey(t)) IN
       tasks' = Replace(t, IF t.pc = "nav_match" THEN NavMatched(t, m)
                           ELSE IF t.pc = "nav_offline" THEN NavOffline(t, m)
                           ELSE IF t.pc = "api_match" THEN ApiMatched(t, m)
                           ELSE IF t.pc = "st_match" THEN StaticMatched(t, m)
                           ELSE StaticFallback(t, m))
    /\ UNCHANGED <<caches, lifecycleVars>>

\* WriteTarget naming the static generation.
WriteTargetStatic == STATIC_CACHE

\* The generation the fetch listener writes to.
WriteTarget == RUNTIME_CACHE

\* caches.open(RUNTIME_CACHE) of a scheduled write resolves
WriteOpen(t) ==
    /\ t.write = "scheduled"
    /\ caches' = Open(caches, WriteTarget)
    /\ tasks' = Replace(t, [t EXCEPT !.write = "opened"])
    /\ UNCHANGED lifecycleVars

\* cache.put(request, copy) resolves
WritePut(t) ==
    /\ t.write = "opened"
    /\ caches' = Put(caches, WriteTarget, t.req.path, t.copy)
    /\ tasks' = Replace(t, [t EXCEPT !.write = "stored"])
    /\ UNCHANGED lifecycleVars

\* cache.put(request, copy) rejects; nothing observes the rejection
WriteFail(t) ==
    /\ t.write = "opened"
    /\ tasks' = Replace(t, [t EXCEPT !.write = "failed"])
    /\ UNCHANGED <<caches, lifecycleVars>>

Tasks == BagToSet(tasks)

\* The steps of the tasks, with at most limit fetch events.
Serve(limit) ==
    \/ \E request \in Requests : FetchEvent(request, limit)
    \/ \E t \in Tasks, res \in NetResponses : NetworkResolve(t, res)
    \/ \E t \in Tasks : NetworkReject(t)
    \/ \E t \in Tasks : MatchResolve(t)
    \/ \E t \in Tasks : WriteOpen(t)
    \/ \E t \in Tasks : WritePut(t)
    \/ \E t \in Tasks : WriteFail(t)

Next ==
    \/ InstallEvent
    \/ InstallOpen
    \/ AddAllResolve
    \/ \E k \in 1..Len(STATIC_ASSETS) : AddAllReject(k)
    \/ InstallSkipWaiting
    \/ InstallDone
    \/ SessionsClose
    \/ \E data \in MessageData : MessageEvent(data)
    \/ ActivateEvent
    \/ KeysResolve
    \/ \E key \in DOMAIN deletes : DeleteResolve(key)
    \/ \E key \in DOMAIN deletes : DeleteReject(key)
    \/ ClientsClaim
    \/ AllReject
    \/ ActivateDone
    \/ Serve(MaxLifecycleRequests)

Spec == Init /\ [][Next]_vars

\* The store once install has succeeded over the generations named kept.
InstalledStore(kept) ==
    PutAll(Open(PriorStore(kept), STATIC_CACHE), STATIC_CACHE, STATIC_ASSETS, PreloadResp)

\* The worker has been installed and activated over a store holding the
\* previous deployment's generations, and every caches.delete of the
\* activate handler has settled: all were fulfilled, or all were rejected
\* and the generations of failed are still in the store.
InitServe ==
    \E failed \in {{}, SeqToSet(PriorGenerations)} :
        /\ caches = InstalledStore(failed)
        /\ swState = "activated"
        /\ installPc = "fulfilled"
        /\ skipWaitingFlag = TRUE
        /\ installSkipped = TRUE
        /\ clientsOpen = TRUE
        /\ activatePc = IF failed = {} THEN "fulfilled" ELSE "rejected"
        /\ deletes = [key \in SeqToSet(PriorGenerations) |->
                        IF key \in failed THEN "failed" ELSE "done"]
        /\ claimed = (failed = {})
        /\ tasks = EmptyBag

NextServe == Serve(MaxRequests)

SpecServe == InitServe /\ [][NextServe]_vars

\* The version whose worker is the active one of the registration.
ActiveVersion ==
    IF swState \in {"activating", "activated"} THEN CACHE_VERSION ELSE PREVIOUS_VERSION

\* ---------------------------------------------------------------- claims

\* What the page that sent the request observes: respondWith given a
\* promise that resolves with no Response fails the request.
CallerSees(result) ==
    IF result.src = "undefined" THEN "failure"
    ELSE IF result.src = "passthrough" THEN "network"
    ELSE "response"

GetNavigation(t) == t.req.method = "GET" /\ t.req.mode = "navigate"

GetApi(t) ==
    /\ t.req.method = "GET" /\ t.req.mode # "navigate"
    /\ Len(t.req.path) >= 2 /\ t.req.path[1] = "api"

GetStatic(t) == t.req.method = "GET" /\ ~GetNavigation(t) /\ ~GetApi(t)

\* The responses some generation of the store holds for path.
Held(store, path) ==
    {store[i].entries[path] :
        i \in {j \in 1..Len(store) : path \in DOMAIN store[j].entries}}

\* This step dispatches the fetch event whose task is u.
Arrived(u) ==
    /\ BagCardinality(tasks') > BagCardinality(tasks)
    /\ CopiesIn(u, tasks') > CopiesIn(u, tasks)

\* This step takes one task from t to u.
Moved(t, u) ==
    /\ BagCardinality(tasks') = BagCardinality(tasks)
    /\ CopiesIn(t, tasks') < CopiesIn(t, tasks)
    /\ CopiesIn(u, tasks') > CopiesIn(u, tasks)

\* This step takes task t, at position pc, to a task that satisfies P.
StepFrom(t, pc, P(_)) ==
    (t.pc = pc /\ CopiesIn(t, tasks') < CopiesIn(t, tasks))
        => \E u \in BagToSet(tasks') : Moved(t, u) /\ P(u)

\* C1: a request whose method is not GET is left alone by the fetch
\* handler: no caches.match, no fetch, no cache write and no respondWith,
\* and the step that handles it leaves the cache store as it was.
C1_NonGetUntouched ==
    \A t \in Tasks :
        t.req.method # "GET" =>
            /\ t.pc = "done" /\ t.result = Result("passthrough", NoResp)
            /\ ~t.responded
            /\ t.lookups = 0 /\ t.netCalls = 0
            /\ t.write = "none" /\ t.copy = NoResp

C1_NonGetFrame ==
    \A u \in BagToSet(tasks') :
        (u.req.method # "GET" /\ Arrived(u)) => caches' = caches

\* C1: both parts, in every state and at every step.
C1_NonGetBypassesCache == [](C1_NonGetUntouched) /\ [][C1_NonGetFrame]_vars

C1_Witness ==
    /\ \E t \in Tasks :
        t.req.method = "POST" /\ t.req.mode = "navigate" /\ t.pc = "done"
    /\ \E t \in Tasks : t.req.method = "GET" /\ t.write = "stored"

\* C2: a GET navigation whose fetch succeeds never looks the cache up and
\* is answered with the live response; the one cache operation it causes
\* is the write of a copy of that response into the runtime generation.
C2_NavLive ==
    \A t \in Tasks :
        (GetNavigation(t) /\ t.net # NoResp) =>
            /\ t.lookups = 0 /\ t.netCalls = 1
            /\ t.pc = "done" /\ t.result = Result("network", t.net)
            /\ t.write # "none" /\ t.copy = t.net

\* The other generations keep their entries, the runtime generation keeps
\* its entries for the other paths.
OnlyRuntimeEntry(path) ==
    /\ \A name \in Keys(caches) \ {RUNTIME_CACHE} :
            Has(caches', name) /\ EntriesOf(caches', name) = EntriesOf(caches, name)
    /\ \A q \in DOMAIN EntriesOf(caches, RUNTIME_CACHE) \ {path} :
            /\ q \in DOMAIN EntriesOf(caches', RUNTIME_CACHE)
            /\ EntriesOf(caches', RUNTIME_CACHE)[q] = EntriesOf(caches, RUNTIME_CACHE)[q]
    /\ Keys(caches') \subseteq Keys(caches) \cup {RUNTIME_CACHE}

C2_NavWrite ==
    \A t \in Tasks, u \in BagToSet(tasks') :
        (GetNavigation(t) /\ Moved(t, u)) =>
            \/ u.write = t.write /\ caches' = caches
            \/ t.write = "none" /\ u.write = "scheduled" /\ caches' = caches
            \/ /\ t.write = "scheduled" /\ u.write = "opened"
               /\ Keys(caches') = Keys(caches) \cup {RUNTIME_CACHE}
               /\ \A name \in Keys(caches) :
                    EntriesOf(caches', name) = EntriesOf(caches, name)
            \/ /\ t.write = "opened" /\ u.write = "stored"
               /\ OnlyRuntimeEntry(t.req.path)
               /\ t.req.path \in DOMAIN EntriesOf(caches', RUNTIME_CACHE)
               /\ EntriesOf(caches', RUNTIME_CACHE)[t.req.path] = t.net
            \/ t.write = "opened" /\ u.write = "failed" /\ caches' = caches

\* C2: the task of a navigation answered by the network (C2_NavLive) and
\* every step of such a task (C2_NavWrite).
C2_NavigationNetworkFirst == [](C2_NavLive) /\ [][C2_NavWrite]_vars

C2_Witness ==
    \E t \in Tasks :
        /\ GetNavigation(t) /\ t.net # NoResp /\ t.lookups = 0
        /\ t.write = "stored"
        /\ EntriesOf(caches, RUNTIME_CACHE)[t.req.path] = t.net

\* C3: when the fetch of a GET navigation fails, the response a generation
\* holds for the request is returned as stored; when no generation holds
\* one, the stored offline document is returned. After a successful install
\* the navigation to "/" is answered with the response stored for "/".
C3_NavFails ==
    \A t \in Tasks :
        GetNavigation(t) =>
            StepFrom(t, "nav_fetch", LAMBDA u :
                \/ u.net # NoResp /\ u.pc = "done"
                \/ u.net = NoResp /\ u.pc = "nav_match" /\ u.lookups = 1)

C3_NavLookup ==
    \A t \in Tasks :
        StepFrom(t, "nav_match", LAMBDA u :
            IF Held(caches, t.req.path) # {}
            THEN /\ u.pc = "done" /\ u.result.src = "cache"
                 /\ u.result.resp \in Held(caches, t.req.path)
            ELSE u.pc = "nav_offline")

C3_NavOffline ==
    \A t \in Tasks :
        StepFrom(t, "nav_offline", LAMBDA u :
            /\ u.pc = "done" /\ u.result.src = "cache"
            /\ u.result.resp \in Held(caches, OfflinePath))

C3_NavRoot ==
    \A t \in Tasks :
        /\ GetNavigation(t) <=> t.pc \in {"nav_fetch", "nav_match", "nav_offline"}
                                \/ (t.pc = "done" /\ t.netCalls = 1 /\ t.lookups \in {0, 1, 2}
                                    /\ (t.lookups = 0 <=> t.net # NoResp)
                                    /\ t.req.mode = "navigate")
        /\ (GetNavigation(t) /\ t.req.path = RootPath /\ t.pc = "done" /\ t.net = NoResp) =>
                /\ t.result.src = "cache"
                /\ t.result.resp \in {PreloadResp, StaleResp}
                /\ t.lookups = 1

\* C3: the steps of a navigation whose fetch failed, and the answer to a
\* navigation to "/".
C3_NavigationFallback ==
    [][C3_NavFails /\ C3_NavLookup /\ C3_NavOffline]_vars /\ [](C3_NavRoot)

C3_Witness ==
    \E t \in Tasks :
        /\ GetNavigation(t) /\ t.req.path = RootPath /\ t.net = NoResp
        /\ t.pc = "done" /\ t.result = Result("cache", PreloadResp)

\* C4: a GET request for /api/... that is no navigation, whose fetch fails
\* while no generation holds an entry for it, ends in a failure the caller
\* sees: no synthesized 504, no offline document, no placeholder image.
C4_ApiFails ==
    \A t \in Tasks :
        GetApi(t) =>
            StepFrom(t, "api_fetch", LAMBDA u :
                \/ u.net # NoResp /\ u.pc = "done"
                \/ u.net = NoResp /\ u.pc = "api_match" /\ u.lookups = 1)

C4_ApiMiss ==
    \A t \in Tasks :
        (GetApi(t) /\ Held(caches, t.req.path) = {}) =>
            StepFrom(t, "api_match", LAMBDA u :
                /\ u.pc = "done"
                /\ CallerSees(u.result) = "failure"
                /\ u.result.src \notin {"synthesized", "cache", "network"}
                /\ u.result.resp = NoResp)

\* C4: the steps of an API request whose fetch failed.
C4_ApiFailurePropagates == [][C4_ApiFails /\ C4_ApiMiss]_vars

C4_Witness ==
    \E t \in Tasks :
        /\ GetApi(t) /\ t.pc = "done" /\ t.net = NoResp
        /\ CallerSees(t.result) = "failure"

\* C5: a static GET request whose cache lookup finds an entry is answered
\* with that entry; fetch is never called for it and it writes nothing.
C5_StaticHitStep ==
    \A t \in Tasks :
        (GetStatic(t) /\ Held(caches, t.req.path) # {}) =>
            StepFrom(t, "st_match", LAMBDA u :
                /\ u.pc = "done" /\ u.result.src = "cache"
                /\ u.result.resp \in Held(caches, t.req.path)
                /\ u.netCalls = 0 /\ u.write = "none")

C5_StaticHitFinal ==
    \A t \in Tasks :
        (GetStatic(t) /\ t.pc = "done" /\ t.lookups = 1 /\ t.result.src = "cache") =>
            t.netCalls = 0 /\ t.write = "none" /\ t.net = NoResp

\* C5: the lookup step of a static request that hits, and its task after.
C5_StaticHitNoNetwork == [][C5_StaticHitStep]_vars /\ [](C5_StaticHitFinal)

C5_Witness ==
    \E t \in Tasks :
        /\ GetStatic(t) /\ t.pc = "done" /\ t.result = Result("cache", PreloadResp)
        /\ t.netCalls = 0 /\ t.write = "none"

\* C6 as claimed: the static request that follows a static request
\* answered from the network with a cacheable response finds that response
\* in the cache and is served without a network call.
C6_FollowerHits ==
    \A t \in Tasks :
        (GetStatic(t) /\ t.prior # {}) =>
            StepFrom(t, "st_match", LAMBDA u :
                /\ u.pc = "done" /\ u.result.src = "cache"
                /\ u.result.resp \in t.prior
                /\ u.netCalls = 0)

\* C6 as claimed, at every step.
C6_Original == [][C6_FollowerHits]_vars

\* C6 amended: a static request that misses and is answered by the network
\* with status 200 and a type other than opaque schedules a write of a copy;
\* once that write has completed the copy is the one response the store
\* holds for the path, and while it is, a static request for the path is
\* answered with it from the cache, without a network call.
C6_WriteScheduled ==
    \A t \in Tasks :
        (GetStatic(t) /\ t.net # NoResp /\ t.net.status = 200 /\ t.net.type # "opaque") =>
            t.write # "none" /\ t.copy = t.net /\ t.result = Result("network", t.net)

C6_WriteCompletes ==
    \A t \in Tasks, u \in BagToSet(tasks') :
        (GetStatic(t) /\ t.write = "opened" /\ Moved(t, u) /\ u.write = "stored") =>
            Held(caches', t.req.path) = {t.copy}

C6_StoredServes ==
    \A t \in Tasks, w \in Tasks :
        (/\ GetStatic(t) /\ GetStatic(w) /\ w.req.path = t.req.path
         /\ w.write = "stored" /\ Held(caches, t.req.path) = {w.copy}) =>
            StepFrom(t, "st_match", LAMBDA u :
                /\ u.pc = "done" /\ u.result = Result("cache", w.copy)
                /\ u.netCalls = 0)

\* C6 amended: the write is scheduled, its completion makes the copy the
\* held response, and the held copy is served from the cache.
C6_StoredThenServed ==
    [](C6_WriteScheduled) /\ [][C6_WriteCompletes /\ C6_StoredServes]_vars

C6_Witness ==
    \E t \in Tasks, w \in Tasks :
        /\ GetStatic(t) /\ GetStatic(w) /\ w.req.path = t.req.path
        /\ w.write = "stored" /\ t.prior = {w.net}
        /\ t.pc = "done" /\ t.result = Result("cache", w.copy) /\ t.netCalls = 0

\* C7: a response served for a static request that is opaque or whose
\* status is not 200 is in no generation under the path of that request.
C7_UncacheableNeverStored ==
    \A t \in Tasks :
        (/\ GetStatic(t) /\ t.pc = "done"
         /\ t.result.src \in {"network", "cache", "synthesized"}
         /\ (t.result.resp.type = "opaque" \/ t.result.resp.status # 200)) =>
            t.result.resp \notin Held(caches, t.req.path)

\* C8 as claimed: once activation has completed the store holds exactly the
\* two generations of the current version.
C8_Original ==
    swState = "activated" => Keys(caches) = {STATIC_CACHE, RUNTIME_CACHE}

\* C8 amended: once activation has completed, the static generation of the
\* current version is present; the runtime generation is present only once
\* a write of the fetch handler has opened it; a generation with another
\* name is present only while its caches.delete is pending or was rejected,
\* and none is when all were fulfilled (the clients were claimed).
C8_ActivatedStore ==
    swState = "activated" =>
        /\ STATIC_CACHE \in Keys(caches)
        /\ \A name \in Keys(caches) \ {STATIC_CACHE, RUNTIME_CACHE} :
                name \in DOMAIN deletes /\ deletes[name] \in {"pending", "failed"}
        /\ \A name \in DOMAIN deletes : deletes[name] = "done" => name \notin Keys(caches)
        /\ claimed => Keys(caches) \subseteq {STATIC_CACHE, RUNTIME_CACHE}
        /\ RUNTIME_CACHE \in Keys(caches) =>
                \E t \in Tasks : t.write \in {"opened", "stored", "failed"}

C8_Witness ==
    /\ swState = "activated" /\ claimed
    /\ DOMAIN deletes = SeqToSet(PriorGenerations)
    /\ Keys(caches) = {STATIC_CACHE, RUNTIME_CACHE}

\* C9: when the fetch of a manifest entry fails during install, nothing of
\* the preload is stored, the install handler does not call skipWaiting,
\* and the worker never becomes active, whenever a SKIP_WAITING message is
\* delivered: the previous version stays the active one.
C9_Failed ==
    installPc = "rejected" =>
        /\ swState = "redundant" /\ ActiveVersion = PREVIOUS_VERSION
        /\ ~installSkipped
        /\ activatePc = "idle" /\ ~claimed /\ tasks = EmptyBag
        /\ Has(caches, STATIC_CACHE) /\ DOMAIN EntriesOf(caches, STATIC_CACHE) = {}

C9_StaysFailed ==
    installPc = "rejected" =>
        installPc' = "rejected" /\ swState' = "redundant" /\ caches' = caches

\* C9: the state after a failed install, which no later step leaves.
C9_FailedInstallNeverActive == [](C9_Failed) /\ [][C9_StaysFailed]_vars

C9_Witness ==
    installPc = "rejected" /\ skipWaitingFlag /\ swState = "redundant"

\* C10: when install succeeds every URL of the manifest is in the static
\* generation of the current version before skipWaiting is called, the
\* next step of the handler is that call, and the activation it allows
\* does not wait for the open sessions to close.
ManifestStored(store) ==
    \A k \in 1..Len(STATIC_ASSETS) :
        /\ STATIC_ASSETS[k] \in DOMAIN EntriesOf(store, STATIC_CACHE)
        /\ EntriesOf(store, STATIC_CACHE)[STATIC_ASSETS[k]] = PreloadResp

C10_Preloaded ==
    /\ installPc \in {"skipWaiting", "fulfilled"} => ManifestStored(caches)
    /\ installPc = "skipWaiting" => ~installSkipped /\ ENABLED InstallSkipWaiting
    /\ installPc = "fulfilled" => installSkipped /\ skipWaitingFlag
    /\ swState = "installed" => ENABLED ActivateEvent

C10_SkipRightAfter ==
    (installPc = "skipWaiting" /\ installPc' # "skipWaiting") =>
        /\ installSkipped' /\ skipWaitingFlag' /\ installPc' = "fulfilled"
        /\ clientsOpen' = clientsOpen

\* C10: the manifest is stored before the call, which is the next step.
C10_PreloadThenSkipWaiting == [](C10_Preloaded) /\ [][C10_SkipRightAfter]_vars

C10_Witness ==
    /\ swState = "activating" /\ clientsOpen /\ installSkipped
    /\ ManifestStored(caches)

\* C11 as stated: every intercepted GET request ends with a Response
\* (live, cached or fallback) or with the synthesized 504 that has no
\* body, never with an absent result.
C11_Original ==
    \A t \in Tasks :
        (t.req.method = "GET" /\ t.pc = "done") =>
            /\ t.result.src \in {"network", "cache", "synthesized"}
            /\ t.result.resp # NoResp

\* C11: an intercepted GET request that has ended has one result: a live
\* response, a cached or fallback response, the synthesized 504 without a
\* body (static requests only), or, for an API request whose fetch
\* failed and whose lookup found nothing, no Response at all; a
\* navigation or static request never ends without a Response while the
\* store holds the offline page and the placeholder image.
C11_ResultShape ==
    \A t \in Tasks :
        t.req.method = "GET" =>
            /\ t.responded
            /\ t.pc # "done" => t.result = NoResult
            /\ t.pc = "done" =>
                \/ t.result.src = "network" /\ t.result.resp = t.net /\ t.net # NoResp
                \/ t.result.src = "cache" /\ t.result.resp # NoResp
                \/ /\ t.result = Result("synthesized", GatewayTimeout)
                   /\ GetStatic(t) /\ t.net = NoResp
                \/ /\ t.result = Result("undefined", NoResp)
                   /\ GetApi(t) /\ t.net = NoResp /\ t.lookups = 1

\* C11: the result of a request that has ended is never replaced.
C11_ResultOnce ==
    \A t \in Tasks :
        (t.req.method = "GET" /\ t.pc = "done") =>
            \A u \in BagToSet(tasks') :
                Moved(t, u) => u.pc = "done" /\ u.result = t.result

\* C11: one result per intercepted GET request, absent only for an API
\* request whose fetch failed and that no generation holds.
C11_OneResult == [](C11_ResultShape) /\ [][C11_ResultOnce]_vars

C11_Witness ==
    /\ \E t \in Tasks : GetApi(t) /\ t.pc = "done" /\ t.result.src = "undefined"
    /\ \E t \in Tasks : GetStatic(t) /\ t.pc = "done" /\ t.result.src = "synthesized"

\* The generations of the store that belong to another version.
Foreign(store) == Keys(store) \ {STATIC_CACHE, RUNTIME_CACHE}

\* C12: every obsolete generation has been deleted when clients.claim() is
\* called, and the worker controls clients and handles their requests
\* only while no generation of another version is in the store.
C12_DeletedBeforeServing ==
    /\ claimed =>
        /\ \A key \in DOMAIN deletes : deletes[key] = "done"
        /\ Foreign(caches) = {}
    /\ (swState = "activated" /\ tasks # EmptyBag) => Foreign(caches) = {}

\* C13: when a caches.delete of the activate handler has failed, the
\* activation that completes is one in which the clients were claimed, and
\* every other obsolete generation is deleted: none of the deletes the
\* handler started is dropped, and one that was fulfilled removed its
\* generation.
C13_DeleteFailureTolerated ==
    (swState = "activated" /\ \E key \in DOMAIN deletes : deletes[key] = "failed") =>
        /\ claimed
        /\ activatePc = "fulfilled"
        /\ \A key \in DOMAIN deletes :
                deletes[key] = "done" => key \notin Keys(caches)

\* C14: a static GET request that missed the cache and whose fetch fails
\* looks up the placeholder image when its destination is 'image', else
\* the offline page when its Accept header contains text/html, and else
\* ends with the synthesized 504 that has no body.
C14_StaticCatchOrder ==
    \A t \in Tasks :
        (GetStatic(t) /\ t.pc = "st_fetch") =>
            \A u \in BagToSet(tasks') :
                (Moved(t, u) /\ u.net = NoResp) =>
                    IF t.req.destination = "image"
                    THEN u.pc = "st_image" /\ u.lookups = t.lookups + 1
                    ELSE IF "text/html" \in t.req.accept
                    THEN u.pc = "st_offline" /\ u.lookups = t.lookups + 1
                    ELSE /\ u.pc = "done" /\ u.lookups = t.lookups
                         /\ u.result = Result("synthesized", GatewayTimeout)
                         /\ u.result.resp.status = 504 /\ u.result.resp.body = 0

\* C14: the lookup of the fallback answers with the cached entry.
C14_StaticFallbackServed ==
    \A t \in Tasks :
        GetStatic(t) =>
            /\ StepFrom(t, "st_image", LAMBDA u :
                    /\ u.pc = "done" /\ u.result.src = "cache"
                    /\ u.result.resp \in Held(caches, PlaceholderPath))
            /\ StepFrom(t, "st_offline", LAMBDA u :
                    /\ u.pc = "done" /\ u.result.src = "cache"
                    /\ u.result.resp \in Held(caches, OfflinePath))

\* C14: a static request whose fetch failed ends with a response.
C14_NeverRaw ==
    \A t \in Tasks :
        (GetStatic(t) /\ t.pc = "done" /\ t.netCalls = 1 /\ t.net = NoResp) =>
            /\ CallerSees(t.result) = "response"
            /\ t.result.resp # NoResp
            /\ t.lookups = IF t.result.src = "synthesized" THEN 1 ELSE 2

\* C14: the fallback of a static request whose fetch failed.
C14_StaticFallbackChain ==
    [][C14_StaticCatchOrder /\ C14_StaticFallbackServed]_vars /\ [](C14_NeverRaw)

C14_Witness ==
    /\ \E t \in Tasks :
        /\ GetStatic(t) /\ t.req.destination = "image" /\ "text/html" \in t.req.accept
        /\ t.pc = "done" /\ t.net = NoResp /\ t.result.src = "cache"
    /\ \E t \in Tasks :
        /\ GetStatic(t) /\ t.req.accept = {}
        /\ t.pc = "done" /\ t.result = Result("synthesized", GatewayTimeout)

\* The positions of the strategy that the mode and the path of a GET
\* request select: the first one is where the strategy starts.
C15_Positions(t) ==
    IF GetNavigation(t) THEN <<"nav_fetch", "nav_match", "nav_offline">>
    ELSE IF GetApi(t) THEN <<"api_fetch", "api_match">>
    ELSE <<"st_match", "st_fetch", "st_image", "st_offline">>

\* C15: a GET request is in a position of the strategy its mode and path
\* select, navigation before API before static, or has ended after the
\* calls that strategy makes: one fetch and up to two lookups for a
\* navigation, one fetch and at most one lookup for an API request, a
\* lookup first for a static request.
C15_InOneStrategy ==
    \A t \in Tasks :
        t.req.method = "GET" =>
            /\ t.responded
            /\ t.pc \in SeqToSet(C15_Positions(t)) \cup {"done"}
            /\ t.pc = "done" =>
                IF GetNavigation(t) THEN t.netCalls = 1 /\ t.lookups \in {0, 1, 2}
                ELSE IF GetApi(t) THEN t.netCalls = 1 /\ t.lookups \in {0, 1}
                ELSE t.lookups >= 1 /\ t.netCalls <= 1

\* C15: a GET request starts in the first position of its strategy and
\* every step keeps it in that strategy.
C15_StaysInStrategy ==
    \A u \in BagToSet(tasks') :
        u.req.method = "GET" =>
            /\ Arrived(u) => u.pc = C15_Positions(u)[1]
            /\ \A t \in Tasks :
                    Moved(t, u) => u.pc \in SeqToSet(C15_Positions(t)) \cup {"done"}

\* C15: exactly one strategy per GET request, chosen by mode, then path.
C15_OneStrategy == [](C15_InOneStrategy) /\ [][C15_StaysInStrategy]_vars

C15_Witness ==
    /\ \E t \in Tasks :
        /\ GetNavigation(t) /\ t.req.path = ApiUsersPath
        /\ t.pc = "done" /\ t.lookups = 2 /\ t.result.src = "cache"
    /\ \E t \in Tasks :
        GetApi(t) /\ t.req.path = ApiUsersPath /\ t.pc = "done" /\ t.result.src = "undefined"

\* C16: a request for which a cache write was scheduled has already been
\* answered with the live response, of which the write holds a copy,
\* whether the write is pending, has completed or has failed.
C16_AnsweredWhateverTheWrite ==
    \A t \in Tasks :
        t.write \in {"scheduled", "opened", "stored", "failed"} =>
            /\ t.pc = "done"
            /\ t.result = Result("network", t.net) /\ t.net # NoResp
            /\ t.copy = t.net
            /\ CallerSees(t.result) = "response"

\* C16: the step that schedules the write is the step that returns the
\* response, and no step of the write, a failed one included, changes the
\* answer or the position of the request.
C16_WriteOffThePath ==
    \A t \in Tasks, u \in BagToSet(tasks') :
        Moved(t, u) =>
            /\ (t.write = "none" /\ u.write # "none") =>
                    /\ u.write = "scheduled" /\ u.pc = "done"
                    /\ u.result = Result("network", u.net)
                    /\ caches' = caches
            /\ t.write # "none" =>
                    /\ u.pc = t.pc /\ u.result = t.result /\ u.net = t.net
                    /\ u.copy = t.copy /\ u.req = t.req
                    /\ u.write = "failed" => caches' = caches

\* C16: the cache write is fire-and-forget in the three strategies.
C16_FireAndForget == [](C16_AnsweredWhateverTheWrite) /\ [][C16_WriteOffThePath]_vars

C16_Witness ==
    /\ \E t \in Tasks : GetStatic(t) /\ t.write = "failed" /\ t.pc = "done"
    /\ \E t \in Tasks : ~GetStatic(t) /\ t.write = "scheduled" /\ t.pc = "done"

\* The static GET requests for path that have scheduled a cache write.
C17_Writers(path) ==
    {t \in Tasks : GetStatic(t) /\ t.req.path = path /\ t.write # "none"}

\* No navigation or API request has a write for path.
C17_OnlyStatic(path) ==
    \A t \in Tasks : (t.req.path = path /\ t.write # "none") => GetStatic(t)

\* C17: when the static requests for one identity have fetched and
\* scheduled their writes and none of the writes is pending any more, the
\* runtime generation holds for that identity one whole response, among
\* those the requests whose write completed have fetched.
C17_Converged ==
    \A path \in {RootPath, PhotoPath} :
        LET stored == {t \in C17_Writers(path) : t.write = "stored"} IN
        (/\ C17_OnlyStatic(path)
         /\ stored # {}
         /\ \A t \in C17_Writers(path) : t.write \in {"stored", "failed"}) =>
            /\ path \in DOMAIN EntriesOf(caches, RUNTIME_CACHE)
            /\ EntriesOf(caches, RUNTIME_CACHE)[path] \in {t.net : t \in stored}
            /\ EntriesOf(caches, RUNTIME_CACHE)[path] \in NetResponses

\* C17: the write that completes last decides the entry.
C17_LastWriteWins ==
    \A t \in Tasks, u \in BagToSet(tasks') :
        (Moved(t, u) /\ GetStatic(t) /\ t.write = "opened" /\ u.write = "stored") =>
            /\ t.req.path \in DOMAIN EntriesOf(caches', RUNTIME_CACHE)
            /\ EntriesOf(caches', RUNTIME_CACHE)[t.req.path] = t.net

\* C17: concurrent static requests for one identity leave one of the
\* responses they fetched, the last one written.
C17_ConcurrentStaticWrites == [](C17_Converged) /\ [][C17_LastWriteWins]_vars

C17_Witness ==
    \E t \in Tasks, u \in Tasks :
        /\ GetStatic(t) /\ GetStatic(u) /\ t.req.path = u.req.path
        /\ t.netCalls = 1 /\ u.netCalls = 1 /\ t.net # u.net
        /\ t.write = "stored" /\ u.write = "stored"
        /\ EntriesOf(caches, RUNTIME_CACHE)[t.req.path] = u.net

\* The worker is the active one of its registration.
C18_Active == swState \in {"activating", "activated"}

\* C18: a message event delivered to the active version, SKIP_WAITING
\* included, is handled and changes neither the active version nor the
\* cache store (the skip-waiting flag, which the install handler has set,
\* stays set); and in any state a message whose data is absent or whose
\* type is not 'SKIP_WAITING' is handled and changes no state at all.
C18_TriggersIdempotent ==
    /\ C18_Active =>
        /\ skipWaitingFlag /\ installSkipped
        /\ \A data \in MessageData :
            /\ ENABLED MessageEvent(data)
            /\ ~ENABLED (/\ MessageEvent(data)
                         /\ \/ ActiveVersion' # ActiveVersion
                            \/ caches' # caches
                            \/ swState' # swState
                            \/ skipWaitingFlag' # skipWaitingFlag)
    /\ swState # "parsed" =>
        \A data \in MessageData :
            (~data.has \/ data.type # "SKIP_WAITING") =>
                /\ ENABLED MessageEvent(data)
                /\ ~ENABLED (MessageEvent(data) /\ vars' # vars)

C18_Witness ==
    /\ swState = "activated" /\ ActiveVersion = CACHE_VERSION
    /\ Has(caches, RUNTIME_CACHE)
    /\ ENABLED MessageEvent([has |-> TRUE, type |-> "SKIP_WAITING"])

\* C19: while requests are handled the static generation holds the
\* preloaded response for every URL of the manifest and nothing else.
C19_StaticIntact ==
    /\ Has(caches, STATIC_CACHE)
    /\ DOMAIN EntriesOf(caches, STATIC_CACHE) = SeqToSet(STATIC_ASSETS)
    /\ ManifestStored(caches)
    /\ EntriesOf(caches, STATIC_CACHE)[OfflinePath] = PreloadResp
    /\ EntriesOf(caches, STATIC_CACHE)[PlaceholderPath] = PreloadResp

\* C19: a step of the fetch handler deletes no generation, creates none
\* but the runtime generation of its own version, and changes the entries
\* of no other generation.
C19_WritesRuntimeOnly ==
    /\ Keys(caches) \subseteq Keys(caches')
    /\ Keys(caches') \subseteq Keys(caches) \cup {RUNTIME_CACHE}
    /\ \A name \in Keys(caches) \ {RUNTIME_CACHE} :
            EntriesOf(caches', name) = EntriesOf(caches, name)
    /\ \A t \in Tasks, u \in BagToSet(tasks') :
            (Moved(t, u) /\ t.write = "opened" /\ u.write = "stored") =>
                /\ Has(caches, RUNTIME_CACHE)
                /\ t.req.path \in DOMAIN EntriesOf(caches', RUNTIME_CACHE)
                /\ EntriesOf(caches', RUNTIME_CACHE)[t.req.path] = t.copy

\* C19: the fetch handler leaves the static generation as install made it.
C19_StaticGenerationFrame == [](C19_StaticIntact) /\ [][C19_WritesRuntimeOnly]_vars

C19_Witness ==
    /\ \E t \in Tasks :
        /\ t.req.path = RootPath /\ t.write = "stored" /\ t.copy.status = 404
        /\ EntriesOf(caches, RUNTIME_CACHE)[RootPath] = t.copy
    /\ EntriesOf(caches, STATIC_CACHE)[RootPath] = PreloadResp
    /\ \E t \in Tasks : t.req.path = PhotoPath /\ t.write = "stored"

\* The positions in the store of the generations that hold path.
C20_Holders(path) == {i \in 1..Len(caches) : path \in DOMAIN caches[i].entries}

\* A navigation or API request is looking its own identity up in the
\* cache, after its fetch failed, while the runtime generation holds it.
C20_LooksUpWritten(t) ==
    /\ GetNavigation(t) \/ GetApi(t)
    /\ t.pc \in {"nav_match", "api_match"}
    /\ t.req.path \in DOMAIN EntriesOf(caches, RUNTIME_CACHE)

C20_WritesAnyResponse ==
    \A t \in Tasks, u \in BagToSet(tasks') :
        (Moved(t, u) /\ (GetNavigation(t) \/ GetApi(t))) =>
            /\ (t.pc \in {"nav_fetch", "api_fetch"} /\ u.net # NoResp) =>
                    u.write = "scheduled" /\ u.copy = u.net /\ u.pc = "done"
            /\ (t.write = "opened" /\ u.write = "stored") =>
                    /\ t.req.path \in DOMAIN EntriesOf(caches', RUNTIME_CACHE)
                    /\ EntriesOf(caches', RUNTIME_CACHE)[t.req.path] = t.copy

\* C20: the request whose fetch failed is answered with the entry of the
\* generation created first among those that hold its identity, which is
\* the response written last when only the runtime generation holds it.
C20_ServesFirstHolder ==
    \A t \in Tasks :
        C20_LooksUpWritten(t) =>
            LET holders == C20_Holders(t.req.path)
                first == CHOOSE i \in holders : \A j \in holders : i <= j
            IN  \A u \in BagToSet(tasks') :
                    Moved(t, u) =>
                        /\ u.pc = "done" /\ u.result.src = "cache"
                        /\ u.result.resp = caches[first].entries[t.req.path]
                        /\ (\A i \in holders : caches[i].name = RUNTIME_CACHE) =>
                                u.result.resp = EntriesOf(caches, RUNTIME_CACHE)[t.req.path]

====
